---- MODULE Spec2Model ----
(***************************************************************************)
(* A model of gqcnn/model/tf/network_tf.py: the GQCNNTF network object,    *)
(* its weight store (GQCNNWeights.weights), the layer builders, the stream *)
(* builders, _build_network / initialize_network, the session life cycle   *)
(* and the batched predict / featurize loops.                              *)
(*                                                                         *)
(* Tensors are not computed numerically.  A graph node is a record that    *)
(* says which layer made it, from which nodes, with or without activation, *)
(* and its rank; a weight tensor is an identity (a number drawn from a     *)
(* counter), so "the same tensor" and "a new tensor" are told apart.  A    *)
(* row of an input array is a tag: 0 is a row of zeros, k > 0 is the       *)
(* normalised k-th input of the call.                                      *)
(***************************************************************************)
EXTENDS Integers, Sequences, FiniteSets, TLC

\* ------------------------------------------------------------------ bounds
MaxLayers == 2      \* longest layer list of the stream under variation
MaxN == 3           \* most rows in an input array of predict / featurize
MaxB == 2           \* largest batch size
MaxSess == 2        \* most sessions ever opened in one behaviour
MaxBuilds == 2      \* most initialize_network calls in one behaviour
MaxLoads == 2       \* most init_weights_file calls in one behaviour
MaxSets == 1        \* most normalisation parameters a caller has changed
MaxImLayers == 4    \* longest image stream of the image-stream specification

\* ---------------------------------------------------------------- sentinels
Unbound == -2       \* a local variable that has not been assigned yet

Min(a, b) == IF a < b THEN a ELSE b

\* ------------------------------------------------------------ weight store
\* '{}_weights'.format(name): a name and a role are lists of the tokens that
\* '_' separates, and formatting concatenates them.
Key(name, role) == name \o role

Has(w, k) == k \in DOMAIN w

\* d[k] = v on a Python dict
Put(d, k, v) == [x \in DOMAIN d \cup {k} |-> IF x = k THEN v ELSE d[x]]

Fail(s, e) == IF s.err = "" THEN [s EXCEPT !.err = e] ELSE s

\* self._weights.weights[key] = tf.Variable(...): a new tensor under key
Alloc(s, key) == [s EXCEPT !.w = Put(s.w, key, s.nid), !.nid = s.nid + 1]

RECURSIVE AllocAll(_, _, _)
AllocAll(s, name, roles) ==
    IF roles = <<>> THEN s
    ELSE AllocAll(Alloc(s, Key(name, Head(roles))), name, Tail(roles))

\* A builder that makes new tensors whether or not the keys are in the store.
GetOrCreateAnew(s, name, roles) == AllocAll(s, name, roles)

\* The pattern every layer builder opens with: if the first key is in the
\* store, read every key (KeyError when one is missing), else create them all.
GetOrCreate(s, name, roles) ==
    IF Has(s.w, Key(name, roles[1]))
    THEN IF \A i \in 1..Len(roles) : Has(s.w, Key(name, roles[i]))
         THEN s ELSE Fail(s, "KeyError")
    ELSE AllocAll(s, name, roles)

\* np.sqrt(2.0 / fan_in) on the creating branch
StdFails(s, name, probe, fan_in) == ~Has(s.w, Key(name, probe)) /\ fan_in = 0

\* -------------------------------------------------------------- graph nodes
Node(layer, kind, ins, act, first, rank) ==
    [layer |-> layer, kind |-> kind, ins |-> ins, act |-> act, first |-> first,
     rank |-> rank, rows |-> 0, dflt |-> FALSE]

Placeholder(layer, rank, rows, dflt) ==
    [layer |-> layer, kind |-> "placeholder", ins |-> <<>>, act |-> FALSE,
     first |-> FALSE, rank |-> rank, rows |-> rows, dflt |-> dflt]

AddNode(s, n) == [s EXCEPT !.nodes = Append(@, n), !.out = Len(s.nodes) + 1]

\* self._feature_tensors[name] = <the node just added>
Register(s, name) == [s EXCEPT !.ft = Put(@, name, s.out)]

RankOf(s, id) == s.nodes[id].rank

\* The ops of a layer, after its weights s1 have been looked up: tf.nn.conv2d
\* and tf.matmul raise when an input has not the rank they need (ranks[i] = 0:
\* any rank); the output is registered as a feature.
AddLayer(s1, name, kind, ins, ranks, act, first, rank) ==
    IF s1.err # "" THEN s1
    ELSE IF \E i \in 1..Len(ins) : ranks[i] # 0 /\ RankOf(s1, ins[i]) # ranks[i]
    THEN Fail(s1, "TFShapeError")
    ELSE Register(AddNode(s1, Node(name, kind, ins, act, first, rank)), name)

\* return ..., out_height, out_width, out_channels
ReturnDims(s2, h, wd, ch) ==
    IF s2.err # "" THEN s2 ELSE [s2 EXCEPT !.h = h, !.wd = wd, !.ch = ch]

\* return ..., out_size
ReturnFanIn(s2, out_size) ==
    IF s2.err # "" THEN s2 ELSE [s2 EXCEPT !.fan_in = out_size]

\* ----------------------------------------------------------- layer builders
W == <<"weights">>
B == <<"bias">>

build_spatial_transformer(s, L) ==
    ReturnDims(AddLayer(GetOrCreate(s, L.name, <<W, B>>), L.name,
                        "spatial_transformer", <<s.out>>, <<4>>, FALSE, FALSE, 4),
               L.out_size, L.out_size, s.ch)

build_conv_layer(s, L) ==
    IF StdFails(s, L.name, W, L.filt_dim * L.filt_dim * s.ch)
    THEN Fail(s, "ZeroDivisionError")
    ELSE ReturnDims(AddLayer(GetOrCreate(s, L.name, <<W, B>>), L.name, "conv",
                             <<s.out>>, <<4>>, TRUE, FALSE, 4),
                    s.h \div L.pool_stride, s.wd \div L.pool_stride, L.num_filt)

\* the ops of _build_fully_conv_layer, the converted filter being stored
fully_conv_ops(s1, L) ==
    IF ~Has(s1.w, Key(L.name, B)) THEN Fail(s1, "KeyError")
    ELSE IF RankOf(s1, s1.out) # 4 THEN Fail(s1, "TFShapeError")
    ELSE AddNode(s1, Node(L.name, "fully_conv", <<s1.out>>, TRUE, FALSE, 4))

build_fully_conv_layer(s, filter_dim, L) ==
    IF ~Has(s.w, Key(L.name, W)) THEN Fail(s, "KeyError")
    ELSE fully_conv_ops(Alloc(s, Key(L.name, <<"fully", "conv", "weights">>)), L)

\* the ops of _build_fully_conv_merge_layer, the converted filter being stored
fully_conv_merge_ops(s1, in1, in2, L) ==
    IF RankOf(s1, in1) # 4 THEN Fail(s1, "TFShapeError")
    ELSE IF ~Has(s1.w, Key(L.name, <<"input", "2", "weights">>))
    THEN Fail(s1, "KeyError")
    ELSE IF RankOf(s1, in2) # 2 THEN Fail(s1, "TFShapeError")
    ELSE IF ~Has(s1.w, Key(L.name, B)) THEN Fail(s1, "KeyError")
    ELSE AddNode(s1, Node(L.name, "fully_conv_merge", <<in1, in2>>, TRUE, FALSE, 4))

build_fully_conv_merge_layer(s, in1, in2, filter_dim, L) ==
    IF ~Has(s.w, Key(L.name, <<"input", "1", "weights">>)) THEN Fail(s, "KeyError")
    ELSE fully_conv_merge_ops(
             Alloc(s, Key(L.name, <<"im", "fully", "conv", "weights">>)),
             in1, in2, L)

build_fc_layer(s, fan_in, L, input_is_multi, final_fc_layer) ==
    IF StdFails(s, L.name, W, fan_in) THEN Fail(s, "ZeroDivisionError")
    ELSE ReturnFanIn(AddLayer(GetOrCreate(s, L.name, <<W, B>>), L.name, "fc",
                              <<s.out>>,
                              IF input_is_multi THEN <<0>> ELSE <<2>>,
                              ~final_fc_layer, FALSE, 2),
                     L.out_size)

build_pc_layer(s, fan_in, L) ==
    IF StdFails(s, L.name, W, fan_in) THEN Fail(s, "ZeroDivisionError")
    ELSE ReturnFanIn(AddLayer(GetOrCreate(s, L.name, <<W, B>>), L.name, "pc",
                              <<s.out>>, <<2>>, TRUE, FALSE, 2),
                     L.out_size)

build_gc_layer(s, fan_in, L) ==
    IF StdFails(s, L.name, W, fan_in) THEN Fail(s, "ZeroDivisionError")
    ELSE ReturnFanIn(AddLayer(GetOrCreate(s, L.name, <<W, B>>), L.name, "gc",
                              <<s.out>>, <<2>>, TRUE, FALSE, 2),
                     L.out_size)

\* in3 = 0 stands for input_fc_node_3 = None
build_fc_merge(s, in1, in2, fan_in_1, fan_in_2, L, in3, fan_in_3) ==
    LET I1 == <<"input", "1", "weights">>
        I2 == <<"input", "2", "weights">>
        I3 == <<"input", "3", "weights">>
    IN
    IF StdFails(s, L.name, I1,
                IF in3 # 0 THEN fan_in_1 + fan_in_2 + fan_in_3
                ELSE fan_in_1 + fan_in_2)
    THEN Fail(s, "ZeroDivisionError")
    ELSE ReturnFanIn(
             AddLayer(GetOrCreate(s, L.name,
                                  IF in3 # 0 THEN <<I1, I2, I3, B>>
                                  ELSE <<I1, I2, B>>),
                      L.name, "fc_merge",
                      IF in3 # 0 THEN <<in1, in2, in3>> ELSE <<in1, in2>>,
                      <<2, 2, 2>>, TRUE, FALSE, 2),
             L.out_size)

build_residual_layer(s, fan_in, L, first) ==
    IF StdFails(s, L.name, <<"conv1", "weights">>, fan_in)
    THEN Fail(s, "ZeroDivisionError")
    ELSE ReturnDims(
             AddLayer(GetOrCreate(s, L.name,
                                  << <<"conv1", "weights">>, <<"conv1", "bias">>,
                                     <<"conv2", "weights">>, <<"conv2", "bias">> >>),
                      L.name, "residual", <<s.out>>, <<4>>, TRUE, first, 4),
             s.h, s.wd, L.num_filt)

\* ---------------------------------------------------------- stream builders
\* The assignments that follow a builder's return in a stream's loop:
\* prev_layer = layer_type and, in the image stream, filter_dim.
Built(s1, layer_type, filter_dim) ==
    IF s1.err # "" THEN s1
    ELSE [s1 EXCEPT !.prev = layer_type, !.filter_dim = filter_dim]

\* ... and first_residual = False after the first residual layer
BuiltResidual(s1, layer_type) ==
    IF s1.err # "" THEN s1
    ELSE [s1 EXCEPT !.prev = layer_type, !.first_residual = FALSE]

\* the fc branch of _build_im_stream, s0 having the fan_in just computed
im_fc_layer(s0, L, multi, fully_conv) ==
    IF fully_conv THEN build_fully_conv_layer(s0, s0.filter_dim, L)
    ELSE IF s0.fan_in = Unbound THEN Fail(s0, "UnboundLocalError")
    ELSE Built(build_fc_layer(s0, s0.fan_in, L, multi, FALSE), L.type, 1)

\* One iteration of the loop of _build_im_stream.
im_layer(s, L, fully_conv) ==
    CASE L.type = "spatial_transformer" ->
           Built(build_spatial_transformer([s EXCEPT !.first_residual = TRUE], L),
                 L.type, s.filter_dim)
      [] L.type = "conv" ->
           IF s.prev = "fc"
           THEN Fail(s, "Cannot have conv layer after fc layer")
           ELSE Built(build_conv_layer([s EXCEPT !.first_residual = TRUE], L),
                      L.type, s.filter_dim \div L.pool_stride)
      [] L.type = "fc" ->
           im_fc_layer([s EXCEPT !.first_residual = TRUE,
                                 !.fan_in = IF s.prev \in {"conv", "residual"}
                                            THEN s.h * s.wd * s.ch ELSE @],
                       L, s.prev \in {"conv", "residual"}, fully_conv)
      [] L.type = "pc" ->
           Fail(s, "Cannot have pose-connected layer in image stream")
      [] L.type = "fc_merge" ->
           Fail(s, "Cannot have merge layer in image stream")
      [] L.type = "residual" ->
           BuiltResidual(
               build_residual_layer([s EXCEPT !.fan_in = s.h * s.wd * s.ch],
                                    s.h * s.wd * s.ch, L, s.first_residual),
               L.type)
      [] OTHER -> Fail(s, "Unsupported layer type")

\* What an iteration of the loop that took the locals from s to s1 did for
\* layer L: the dimensions and the filter_dim it found, the dimensions it
\* left. Kept for every iteration that did not raise.
Traced(s, s1, L) ==
    IF s1.err # "" THEN s1
    ELSE [s1 EXCEPT !.trace =
              Append(@, [name |-> L.name, type |-> L.type, prev |-> s.prev,
                         in_h |-> s.h, in_w |-> s.wd, in_ch |-> s.ch,
                         filter_dim |-> s.filter_dim,
                         out_h |-> s1.h, out_w |-> s1.wd, out_ch |-> s1.ch])]

RECURSIVE im_loop(_, _, _)
im_loop(s, layers, fully_conv) ==
    IF s.err # "" \/ layers = <<>> THEN s
    ELSE im_loop(Traced(s, im_layer(s, Head(layers), fully_conv), Head(layers)),
                 Tail(layers), fully_conv)

\* return output_node, fan_in
im_return(s1) ==
    IF s1.err = "" /\ s1.fan_in = Unbound THEN Fail(s1, "UnboundLocalError")
    ELSE s1

\* _build_im_stream: s.out is the input node on entry and the output node on
\* return; the returned fan_in is s.fan_in.
build_im_stream(s, input_height, input_width, input_channels, layers, c) ==
    im_return(im_loop([s EXCEPT !.h = input_height, !.wd = input_width,
                                !.ch = input_channels, !.prev = "start",
                                !.first_residual = TRUE,
                                !.filter_dim = c.train_im_width,
                                !.fan_in = Unbound],
                      layers, c.fully_conv))

\* A pose stream that takes an fc layer for a pc layer.
pose_layer_lenient(s, L) ==
    IF L.type \in {"pc", "fc"}
    THEN Built(build_pc_layer(s, s.fan_in, L), L.type, s.filter_dim)
    ELSE Fail(s, "Unsupported layer type")

pose_layer(s, L) ==
    CASE L.type = "spatial_transformer" ->
           Fail(s, "Cannot have spatial transformer in pose stream")
      [] L.type = "conv" -> Fail(s, "Cannot have conv layer in pose stream")
      [] L.type = "fc" -> Fail(s, "Cannot have fc layer in pose stream")
      [] L.type = "pc" ->
           Built(build_pc_layer(s, s.fan_in, L), L.type, s.filter_dim)
      [] L.type = "fc_merge" -> Fail(s, "Cannot have merge layer in pose stream")
      [] L.type = "residual" -> Fail(s, "Cannot have residual in pose stream")
      [] OTHER -> Fail(s, "Unsupported layer type")

RECURSIVE pose_loop(_, _)
pose_loop(s, layers) ==
    IF s.err # "" \/ layers = <<>> THEN s
    ELSE pose_loop(pose_layer(s, Head(layers)), Tail(layers))

build_pose_stream(s, fan_in, layers) ==
    pose_loop([s EXCEPT !.fan_in = fan_in, !.prev = "start"], layers)

gripper_layer(s, L) ==
    CASE L.type = "spatial_transformer" ->
           Fail(s, "Cannot have spatial transformer in gripper stream")
      [] L.type = "conv" -> Fail(s, "Cannot have conv layer in gripper stream")
      [] L.type = "fc" -> Fail(s, "Cannot have fc layer in gripper stream")
      [] L.type = "pc" -> Fail(s, "Cannot have pc layer in gripper stream")
      [] L.type = "gc" ->
           Built(build_gc_layer(s, s.fan_in, L), L.type, s.filter_dim)
      [] L.type = "fc_merge" -> Fail(s, "Cannot have merge layer in gripper stream")
      [] L.type = "residual" -> Fail(s, "Cannot have residual in gripper stream")
      [] OTHER -> Fail(s, "Unsupported layer type")

RECURSIVE gripper_loop(_, _)
gripper_loop(s, layers) ==
    IF s.err # "" \/ layers = <<>> THEN s
    ELSE gripper_loop(gripper_layer(s, Head(layers)), Tail(layers))

build_gripper_stream(s, fan_in, layers) ==
    gripper_loop([s EXCEPT !.fan_in = fan_in, !.prev = "start"], layers)

\* One iteration of the loop of _build_merge_stream; m holds the arguments
\* (the input streams and their fan-ins; in3 = 0 for input_stream_3 = None).
merge_layer(s, L, layer_index, last_index, m, fully_conv) ==
    CASE L.type = "spatial_transformer" ->
           Fail(s, "Cannot have spatial transformer in merge stream")
      [] L.type = "conv" -> Fail(s, "Cannot have conv layer in merge stream")
      [] L.type = "fc" ->
           Built(IF fully_conv
                 THEN build_fully_conv_layer(s, s.filter_dim, L)
                 ELSE build_fc_layer(s, s.fan_in, L, FALSE,
                                     layer_index = last_index),
                 L.type, s.filter_dim)
      [] L.type = "pc" ->
           Fail(s, "Cannot have pose-connected layer in merge stream")
      [] L.type = "fc_merge" ->
           Built(IF fully_conv
                 THEN build_fully_conv_merge_layer(s, m.in1, m.in2,
                                                   s.filter_dim, L)
                 ELSE build_fc_merge(s, m.in1, m.in2, m.fan_in_1, m.fan_in_2,
                                     L, m.in3, m.fan_in_3),
                 L.type, s.filter_dim)
      [] L.type = "residual" -> Fail(s, "Cannot have residual in merge stream")
      [] OTHER -> Fail(s, "Unsupported layer type")

RECURSIVE merge_loop(_, _, _, _, _)
merge_loop(s, layers, layer_index, m, fully_conv) ==
    IF s.err # "" \/ layer_index >= Len(layers) THEN s
    ELSE merge_loop(merge_layer(s, layers[layer_index + 1], layer_index,
                                Len(layers) - 1, m, fully_conv),
                    layers, layer_index + 1, m, fully_conv)

build_merge_stream(s, m, layers, fully_conv) ==
    IF layers = <<>> THEN Fail(s, "IndexError")
    ELSE IF layers[1].type # "fc_merge"
    THEN Fail(s, "First layer in merge stream must be a fc_merge layer")
    ELSE merge_loop([s EXCEPT !.prev = "start", !.filter_dim = 1, !.fan_in = -1],
                    layers, 0, m, fully_conv)

\* ---------------------------------------------------------- network builder
\* a stream builder is called on input (0: the builder takes no input_node)
Enter(s, stream, input) ==
    [s EXCEPT !.out = input, !.order = Append(@, stream)]

\* output_<stream>, fan_out_<stream> = <what the stream builder returns>
Leave(s, stream) ==
    IF s.err # "" THEN s
    ELSE [s EXCEPT !.outs[stream] = s.out, !.fans[stream] = s.fan_in]

\* arguments of a _build_merge_stream call
MergeArgs(in1, in2, fan_in_1, fan_in_2, in3, fan_in_3) ==
    [in1 |-> in1, in2 |-> in2, fan_in_1 |-> fan_in_1, fan_in_2 |-> fan_in_2,
     in3 |-> in3, fan_in_3 |-> fan_in_3]

\* the gripper stream, built after the pose stream a2 if there is a gripper
\* input node
network_gripper(a2, c, arch, input_gripper_node) ==
    IF a2.err # "" \/ input_gripper_node = 0 THEN a2
    ELSE IF "gripper_stream" \notin DOMAIN arch THEN Fail(a2, "KeyError")
    ELSE Leave(build_gripper_stream(
                   Enter(a2, "gripper_stream", input_gripper_node),
                   c.gripper_dim, arch["gripper_stream"]),
               "gripper_stream")

\* the gripper_pose_merge_stream, built after the gripper stream a3 if the
\* architecture has one
network_gripper_pose_merge(a3, c, arch, input_gripper_node) ==
    IF a3.err # "" \/ input_gripper_node = 0
       \/ "gripper_pose_merge_stream" \notin DOMAIN arch
    THEN a3
    ELSE Leave(build_merge_stream(
                   Enter(a3, "gripper_pose_merge_stream", 0),
                   MergeArgs(a3.outs.pose_stream, a3.outs.gripper_stream,
                             a3.fans.pose_stream, a3.fans.gripper_stream, 0, 0),
                   arch["gripper_pose_merge_stream"], c.fully_conv),
               "gripper_pose_merge_stream")

\* the arguments of the call that builds merge_stream
network_merge_args(a4, arch, input_gripper_node) ==
    IF input_gripper_node # 0
    THEN IF "gripper_pose_merge_stream" \in DOMAIN arch
         THEN MergeArgs(a4.outs.im_stream, a4.outs.gripper_pose_merge_stream,
                        a4.fans.im_stream, a4.fans.gripper_pose_merge_stream,
                        0, 0)
         ELSE MergeArgs(a4.outs.im_stream, a4.outs.pose_stream,
                        a4.fans.im_stream, a4.fans.pose_stream,
                        a4.outs.gripper_stream, a4.fans.gripper_stream)
    ELSE MergeArgs(a4.outs.im_stream, a4.outs.pose_stream,
                   a4.fans.im_stream, a4.fans.pose_stream, 0, 0)

\* merge_stream, built last; its output is what _build_network returns
network_merge(a4, c, arch, input_gripper_node) ==
    IF a4.err # "" THEN a4
    ELSE build_merge_stream(Enter(a4, "merge_stream", 0),
                            network_merge_args(a4, arch, input_gripper_node),
                            arch["merge_stream"], c.fully_conv)

\* the pose stream, built after the image stream a1
network_pose(a1, c, arch, input_pose_node) ==
    IF a1.err # "" THEN a1
    ELSE Leave(build_pose_stream(Enter(a1, "pose_stream", input_pose_node),
                                 c.pose_dim, arch["pose_stream"]),
               "pose_stream")

\* _build_network; input_gripper_node = 0 stands for None.  s.out is the
\* returned tensor; s.outs and s.fans are the outputs and fan-outs of the
\* streams built.
build_network(s, c, arch, input_im_node, input_pose_node, input_gripper_node) ==
    network_merge(
        network_gripper_pose_merge(
            network_gripper(
                network_pose(
                    Leave(build_im_stream(Enter(s, "im_stream", input_im_node),
                                          c.im_height, c.im_width,
                                          c.num_channels, arch["im_stream"], c),
                          "im_stream"),
                    c, arch, input_pose_node),
                c, arch, input_gripper_node),
            c, arch, input_gripper_node),
        c, arch, input_gripper_node)

\* The state the builders thread through: the store, the tensor counter, the
\* feature registry and the graph of the network, plus the builders' locals.
BuildState(w, n, ft, nd) ==
    [w |-> w, nid |-> n, ft |-> ft, nodes |-> nd, err |-> "", out |-> 0,
     h |-> 0, wd |-> 0, ch |-> 0, fan_in |-> Unbound, prev |-> "start",
     first_residual |-> TRUE, filter_dim |-> 0, order |-> <<>>, trace |-> <<>>,
     outs |-> [im_stream |-> 0, pose_stream |-> 0, gripper_stream |-> 0,
               gripper_pose_merge_stream |-> 0],
     fans |-> [im_stream |-> 0, pose_stream |-> 0, gripper_stream |-> 0,
               gripper_pose_merge_stream |-> 0]]

\* ------------------------------------------------------------ configuration
PoseModes == {"tf_image", "tf_image_perspective", "raw_image",
              "raw_image_perspective", "tf_image_suction"}
GripperModes == {"width", "none", "all", "depth_mask"}

\* A parser that takes every pose to be a depth alone.
PoseDimOfDepth(mode) == 1

PoseDimOf(mode) ==
    CASE mode = "tf_image" -> 1
      [] mode = "tf_image_perspective" -> 3
      [] mode = "raw_image" -> 4
      [] mode = "raw_image_perspective" -> 6
      [] mode = "tf_image_suction" -> 2

GripperDimOf(mode) ==
    CASE mode = "width" -> 1
      [] mode = "none" -> 0
      [] mode = "all" -> 4
      [] mode = "depth_mask" -> 0

Zeros(n) == [i \in 1..n |-> 0]
Ones(n) == [i \in 1..n |-> 1]

\* the ValueError _parse_config raises ("": none): the else branches of the
\* two mode tables
parse_config_error(g) ==
    IF g.input_pose_mode \notin PoseModes
    THEN "Input pose mode not understood"
    ELSE IF g.input_gripper_mode \notin GripperModes
    THEN "Input gripper mode not understood"
    ELSE ""

\* the attributes _parse_config has set when it raises
parse_config_raised(g) ==
    IF g.input_pose_mode \notin PoseModes
    THEN [train_im_height |-> g.im_height, train_im_width |-> g.im_width,
          im_height |-> g.im_height, im_width |-> g.im_width,
          num_channels |-> g.im_channels,
          input_pose_mode |-> g.input_pose_mode,
          input_gripper_mode |-> g.input_gripper_mode]
    ELSE [train_im_height |-> g.im_height, train_im_width |-> g.im_width,
          im_height |-> g.im_height, im_width |-> g.im_width,
          num_channels |-> g.im_channels,
          input_pose_mode |-> g.input_pose_mode,
          input_gripper_mode |-> g.input_gripper_mode,
          pose_dim |-> PoseDimOf(g.input_pose_mode)]

\* _parse_config, for a configuration whose modes are recognised;
\* fc = [on |-> BOOLEAN, im_height, im_width] is fully_conv_config
parse_config(g, fc) ==
    [train_im_height |-> g.im_height,
     train_im_width |-> g.im_width,
     im_height |-> IF fc.on THEN fc.im_height ELSE g.im_height,
     im_width |-> IF fc.on THEN fc.im_width ELSE g.im_width,
     num_channels |-> IF g.input_gripper_mode = "depth_mask"
                      THEN g.im_channels + 2 ELSE g.im_channels,
     input_pose_mode |-> g.input_pose_mode,
     input_gripper_mode |-> g.input_gripper_mode,
     pose_dim |-> PoseDimOf(g.input_pose_mode),
     gripper_dim |-> GripperDimOf(g.input_gripper_mode),
     fully_conv |-> fc.on]

\* the normalisation attributes _parse_config defines
parse_config_norm(c) ==
    LET base == [im_mean |-> 0, im_std |-> 1,
                 pose_mean |-> Zeros(c.pose_dim), pose_std |-> Ones(c.pose_dim)]
    IN IF c.gripper_dim > 0
       THEN [im_mean |-> 0, im_std |-> 1,
             pose_mean |-> Zeros(c.pose_dim), pose_std |-> Ones(c.pose_dim),
             gripper_mean |-> Zeros(c.gripper_dim),
             gripper_std |-> Ones(c.gripper_dim)]
       ELSE base

\* ------------------------------------------------------------ architectures
LayerTypes == {"conv", "fc", "pc", "gc", "fc_merge", "residual",
               "spatial_transformer", "lstm"}

StreamNames == {"im_stream", "pose_stream", "gripper_stream",
                "gripper_pose_merge_stream", "merge_stream"}

\* a layer with its name (the key of the stream's dict) and the entries of
\* its layer_config that decide shapes and keys
Layer(name, type) ==
    [name |-> name, type |-> type, filt_dim |-> 3, num_filt |-> 2,
     pool_stride |-> 2, out_size |-> 2]

\* the name of the i-th layer of a stream: "<prefix>_<i>"
Digits == <<"1", "2", "3", "4", "5">>
LayerName(stream, i) ==
    CASE stream = "im_stream" -> <<"im", Digits[i]>>
      [] stream = "pose_stream" -> <<"pc", Digits[i]>>
      [] stream = "gripper_stream" -> <<"gc", Digits[i]>>
      [] stream = "gripper_pose_merge_stream" -> <<"gpm", Digits[i]>>
      [] stream = "merge_stream" -> <<"fc", Digits[i]>>

StreamOf(stream, types) ==
    [i \in 1..Len(types) |-> Layer(LayerName(stream, i), types[i])]

\* every layer list of a stream with at most n layers, of any types
Streams(stream, n) ==
    UNION {{StreamOf(stream, ty) : ty \in [1..k -> LayerTypes]} : k \in 0..n}

DefaultStream(stream) ==
    CASE stream = "im_stream" -> StreamOf(stream, <<"conv", "fc">>)
      [] stream = "pose_stream" -> StreamOf(stream, <<"pc">>)
      [] stream = "gripper_stream" -> StreamOf(stream, <<"gc">>)
      [] stream = "gripper_pose_merge_stream" -> StreamOf(stream, <<"fc_merge">>)
      [] stream = "merge_stream" -> StreamOf(stream, <<"fc_merge", "fc">>)

\* the key sets an architecture dict may have
ArchDomains(gripper_dim) ==
    IF gripper_dim > 0
    THEN {{"im_stream", "pose_stream", "gripper_stream", "merge_stream"},
          {"im_stream", "pose_stream", "gripper_stream",
           "gripper_pose_merge_stream", "merge_stream"}}
    ELSE {{"im_stream", "pose_stream", "merge_stream"}}

\* the streams whose layer list is varied: all three of a network without
\* gripper input, and with gripper input those that such a network adds or
\* wires differently
Varied(D) ==
    IF "gripper_stream" \in D
    THEN D \ {"im_stream", "pose_stream"}
    ELSE D

\* the architectures explored: the usual layer list in every stream but one,
\* and every layer list of at most MaxLayers layers in that one
Architectures(gripper_dim) ==
    UNION {UNION {{[st \in D |-> IF st = v THEN ls ELSE DefaultStream(st)] :
                      ls \in Streams(v, MaxLayers)} : v \in Varied(D)} :
           D \in ArchDomains(gripper_dim)}

\* -------------------------------------------------------------------- state
VARIABLES
    cfg,                \* the attributes _parse_config sets (but _batch_size)
    architecture,       \* self._architecture: stream name -> layer list
    batch_size,         \* self._batch_size
    weights,            \* GQCNNWeights.weights: key -> tensor
    nid,                \* the next new tensor
    feature_tensors,    \* self._feature_tensors: layer name -> graph node
    nodes,              \* the nodes of self._graph, in order of creation
    input_im_node,      \* self._input_im_node (0: not set)
    input_pose_node,    \* self._input_pose_node (0: not set)
    input_gripper_node, \* self._input_gripper_node (0: not set)
    output_tensor,      \* self._output_tensor (0: not set)
    input_im_arr,       \* self._input_im_arr: one tag per row (<<>>: not set)
    input_pose_arr,     \* self._input_pose_arr
    input_gripper_arr,  \* self._input_gripper_arr
    norm,               \* the normalisation attributes that are set
    sess,               \* self._sess (0: None)
    open_sessions,      \* the sessions created and not closed
    builds,             \* initialize_network calls so far
    loads,              \* init_weights_file calls so far
    lastBuild,          \* what the last initialize_network call did
    last                \* what the step just taken did, when it was a
                        \* predict or featurize call

vars == <<cfg, architecture, batch_size, weights, nid, feature_tensors, nodes,
          input_im_node, input_pose_node, input_gripper_node, output_tensor,
          input_im_arr, input_pose_arr, input_gripper_arr, norm, sess,
          open_sessions, builds, loads, lastBuild, last>>

objVars == <<cfg, architecture>>
graphVars == <<weights, nid, feature_tensors, nodes, input_im_node,
               input_pose_node, input_gripper_node, output_tensor>>
bufVars == <<input_im_arr, input_pose_arr, input_gripper_arr>>
sessVars == <<sess, open_sessions>>

NoBuild ==
    [called |-> FALSE, err |-> "", mode |-> "", wBefore |-> <<>>,
     ftBefore |-> <<>>, nodesBefore |-> 0, order |-> <<>>, ret |-> 0,
     outs |-> BuildState(<<>>, 0, <<>>, <<>>).outs, trace |-> <<>>]

NoCall ==
    [op |-> "", n |-> 0, p |-> 0, g |-> 0, gdm |-> FALSE, shapeOk |-> TRUE,
     layer |-> <<>>, err |-> "", returned |-> "", ret |-> <<>>, runs |-> <<>>,
     sessBefore |-> 0, openBefore |-> {}, ftBefore |-> <<>>, batch |-> 0]

\* __init__ with configuration g / fc and architecture arch, the store being
\* the class attribute, empty when the module is loaded.
Attributes(g, fc, arch) ==
    /\ cfg = parse_config(g, fc)
    /\ architecture = arch
    /\ batch_size = g.batch_size
    /\ weights = <<>>
    /\ nid = 1
    /\ feature_tensors = <<>>
    /\ nodes = <<>>
    /\ input_im_node = 0 /\ input_pose_node = 0 /\ input_gripper_node = 0
    /\ output_tensor = 0
    /\ input_im_arr = <<>> /\ input_pose_arr = <<>> /\ input_gripper_arr = <<>>
    /\ norm = parse_config_norm(parse_config(g, fc))
    /\ sess = 0 /\ open_sessions = {}
    /\ builds = 0 /\ loads = 0
    /\ lastBuild = NoBuild

Construct(g, fc, arch) == Attributes(g, fc, arch) /\ last = NoCall

\* GQCNNTF(gqcnn_config, fully_conv_config) as a call whose outcome is kept:
\* the object, or the error _parse_config raises, which leaves no object (the
\* attributes are those set before the raise).
New(g, fc, arch) ==
    IF parse_config_error(g) = ""
    THEN /\ Attributes(g, fc, arch)
         /\ last = [op |-> "__init__", config |-> g, err |-> "",
                    returned |-> "object"]
    ELSE /\ cfg = parse_config_raised(g)
         /\ architecture = <<>>
         /\ batch_size = g.batch_size
         /\ weights = <<>>
         /\ nid = 1
         /\ feature_tensors = <<>>
         /\ nodes = <<>>
         /\ input_im_node = 0 /\ input_pose_node = 0 /\ input_gripper_node = 0
         /\ output_tensor = 0
         /\ input_im_arr = <<>> /\ input_pose_arr = <<>> /\ input_gripper_arr = <<>>
         /\ norm = <<>>
         /\ sess = 0 /\ open_sessions = {}
         /\ builds = 0 /\ loads = 0
         /\ lastBuild = NoBuild
         /\ last = [op |-> "__init__", config |-> g, err |-> parse_config_error(g),
                    returned |-> "raised"]

GqcnnConfig(b, gm) ==
    [batch_size |-> b, im_height |-> 4, im_width |-> 4, im_channels |-> 1,
     input_pose_mode |-> "tf_image", input_gripper_mode |-> gm]

FullyConvConfig(on) == [on |-> on, im_height |-> 4, im_width |-> 4]

\* GQCNNTF(gqcnn_config, fully_conv_config) called in a process that has made
\* networks before: the variables then describe the new object. Its
\* self._weights = GQCNNWeights() is a new object, but weights is an attribute
\* of the class GQCNNWeights: the dict, and what earlier networks put in it,
\* is the one every object reads. builds and loads go on counting.
GQCNNTF(g, fc, arch) ==
    /\ parse_config_error(g) = ""
    /\ cfg' = parse_config(g, fc)
    /\ architecture' = arch
    /\ batch_size' = g.batch_size
    /\ feature_tensors' = <<>>
    /\ nodes' = <<>>
    /\ input_im_node' = 0 /\ input_pose_node' = 0 /\ input_gripper_node' = 0
    /\ output_tensor' = 0
    /\ input_im_arr' = <<>> /\ input_pose_arr' = <<>> /\ input_gripper_arr' = <<>>
    /\ norm' = parse_config_norm(parse_config(g, fc))
    /\ sess' = 0 /\ open_sessions' = {}
    /\ lastBuild' = NoBuild
    /\ last' = [op |-> "__init__", config |-> g, err |-> "", returned |-> "object"]
    /\ UNCHANGED <<weights, nid, builds, loads>>

\* ------------------------------------------------------- initialize_network
\* tf.placeholder(dtype, shape) accepts only a dtype as its first argument
IsDType(x) == x = "dtype"

\* The placeholders of initialize_network(train_im_node, train_pose_node,
\* train_gripper_node): train says whether train_im_node is given; tg is what
\* train_gripper_node is: "None", "tensor" or "dtype".
initialize_network_inputs(train, tg) ==
    LET rows == IF train THEN 0 ELSE batch_size
        s2 == AddNode(AddNode(BuildState(weights, nid, feature_tensors, nodes),
                              Placeholder(<<"input", "im">>, 4, rows, train)),
                      Placeholder(<<"input", "pose">>, 2, rows, train))
    IN IF cfg.gripper_dim = 0 THEN s2
       ELSE IF IsDType(tg)
       THEN AddNode(s2, Placeholder(<<"input", "gripper">>, 2, 0, FALSE))
       ELSE Fail(s2, "TypeError")

\* self._input_gripper_node when the network is built: set by this call only
\* if train_im_node is given
gripper_node(train, tg) ==
    IF cfg.gripper_dim > 0 /\ train /\ IsDType(tg)
    THEN Len(nodes) + 3 ELSE input_gripper_node

\* ... and the network built on them; the result is the build state when the
\* call returns or raises.
initialize_network_build(s3, train, tg) ==
    IF s3.err # "" THEN s3
    ELSE IF cfg.gripper_dim > 0 /\ gripper_node(train, tg) = 0
    THEN Fail(s3, "AttributeError")
    ELSE build_network(s3, cfg, architecture, Len(nodes) + 1, Len(nodes) + 2,
                       IF cfg.gripper_dim > 0 THEN gripper_node(train, tg)
                       ELSE 0)

\* the attributes the call has set when it ends in build state s
initialize_network_set(s, train, tg) ==
    /\ weights' = s.w
    /\ nid' = s.nid
    /\ feature_tensors' = s.ft
    /\ nodes' = s.nodes
    /\ input_im_node' = Len(nodes) + 1
    /\ input_pose_node' = Len(nodes) + 2
    /\ input_gripper_node' = gripper_node(train, tg)
    /\ output_tensor' = IF s.err = "" THEN s.out ELSE output_tensor
    /\ input_im_arr' = IF s.err = "" THEN Zeros(batch_size) ELSE input_im_arr
    /\ input_pose_arr' = IF s.err = "" THEN Zeros(batch_size) ELSE input_pose_arr
    /\ input_gripper_arr' = IF s.err = "" /\ cfg.gripper_dim > 0
                            THEN Zeros(batch_size) ELSE input_gripper_arr
    /\ lastBuild' = [called |-> TRUE, err |-> s.err,
                     mode |-> IF train THEN "train" ELSE "infer",
                     wBefore |-> weights, ftBefore |-> feature_tensors,
                     nodesBefore |-> Len(nodes), order |-> s.order,
                     ret |-> IF s.err = "" THEN s.out ELSE 0, outs |-> s.outs,
                     trace |-> s.trace]

initialize_network(train, tg) ==
    /\ builds < MaxBuilds
    /\ initialize_network_set(
           initialize_network_build(initialize_network_inputs(train, tg),
                                    train, tg),
           train, tg)
    /\ builds' = builds + 1
    /\ last' = NoCall
    /\ UNCHANGED <<objVars, batch_size, norm, sessVars, loads>>

\* --------------------------------------------------------- init_weights_file
\* The network as training builds it: not fully convolutional, on an empty
\* store.
TrainedNetwork ==
    build_network(
        AddNode(AddNode(AddNode(BuildState(<<>>, 1, <<>>, <<>>),
                                Placeholder(<<"input", "im">>, 4, 0, TRUE)),
                        Placeholder(<<"input", "pose">>, 2, 0, TRUE)),
                Placeholder(<<"input", "gripper">>, 2, 0, FALSE)),
        [cfg EXCEPT !.fully_conv = FALSE], architecture, 1, 2,
        IF cfg.gripper_dim > 0 THEN 3 ELSE 0)

\* The variables of a checkpoint written by training this architecture: one
\* per key that building it puts in the store, each under its full name
\* <scope>/<key>.
TrainedKeys == DOMAIN TrainedNetwork.w

RECURSIVE SetToSeq(_)
SetToSeq(S) ==
    IF S = {} THEN <<>>
    ELSE LET x == CHOOSE y \in S : TRUE IN <<x>> \o SetToSeq(S \ {x})

KeyList(keys) == [i \in 1..Len(keys) |-> << <<"gqcnn">>, keys[i] >>]

Checkpoint == KeyList(SetToSeq(TrainedKeys))

\* variable.split('/')[-1]
ShortName(variable) == variable[Len(variable)]

RECURSIVE load_vars(_, _)
load_vars(s, ckpt_vars) ==
    IF ckpt_vars = <<>> THEN s
    ELSE load_vars(Alloc(s, ShortName(Head(ckpt_vars))), Tail(ckpt_vars))

\* init_weights_file: self._weights = GQCNNWeights() makes a new object whose
\* .weights is still the one dict of the class; every checkpoint variable is
\* then stored in it under its short name.
init_weights_file_set(s) == weights' = s.w /\ nid' = s.nid

init_weights_file ==
    /\ loads < MaxLoads
    /\ init_weights_file_set(
           load_vars(BuildState(weights, nid, feature_tensors, nodes), Checkpoint))
    /\ loads' = loads + 1
    /\ last' = [op |-> "init_weights_file", ckpt_vars |-> Checkpoint,
                wBefore |-> weights, err |-> "", returned |-> "None"]
    /\ UNCHANGED <<objVars, batch_size, feature_tensors, nodes, input_im_node,
                   input_pose_node, input_gripper_node, output_tensor, bufVars,
                   norm, sessVars, builds, lastBuild>>

\* ----------------------------------------------------------------- sessions
\* tf.Session(...): a session that is not one of the open ones
NewSession == CHOOSE i \in 1..MaxSess :
                 i \notin open_sessions /\ \A j \in 1..(i - 1) : j \in open_sessions

\* open_session: a new tf.Session is created and self._sess refers to it
open_session ==
    /\ Cardinality(open_sessions) < MaxSess
    /\ sess' = NewSession
    /\ open_sessions' = open_sessions \cup {NewSession}
    /\ last' = NoCall
    /\ UNCHANGED <<objVars, batch_size, graphVars, bufVars, norm, builds, loads,
                   lastBuild>>

\* close_session, called with a session open (self._sess.close() raises
\* AttributeError on None and changes nothing)
close_session ==
    /\ sess # 0
    /\ open_sessions' = open_sessions \ {sess}
    /\ sess' = 0
    /\ last' = NoCall
    /\ UNCHANGED <<objVars, batch_size, graphVars, bufVars, norm, builds, loads,
                   lastBuild>>

update_batch_size(b) ==
    /\ batch_size' = b
    /\ last' = NoCall
    /\ UNCHANGED <<objVars, graphVars, bufVars, norm, sessVars, builds, loads,
                   lastBuild>>

\* ------------------------------------------------- normalisation parameters
NormParams == {"im_mean", "im_std", "pose_mean", "pose_std", "gripper_mean",
               "gripper_std", "gripper_depth_mask_mean",
               "gripper_depth_mask_std"}

\* update_im_mean, update_im_std, ..., update_gripper_depth_mask_std: the
\* setter of parameter p assigns self._<p> = v
update_norm(p, v) ==
    /\ norm' = Put(norm, p, v)
    /\ last' = [op |-> "update", param |-> p, value |-> v, normBefore |-> norm,
                err |-> "", returned |-> "None"]
    /\ UNCHANGED <<objVars, batch_size, graphVars, bufVars, sessVars, builds,
                   loads, lastBuild>>

\* The attribute that the method the class has under the name get_<p>
\* returns ("": the class has no such method). get_im_mean and get_im_std
\* read self.im_mean and self.im_std, which nothing sets; get_gripper_mean
\* and get_gripper_std are defined twice and the second definitions, which
\* read the depth-mask parameters, are the ones the class keeps.
GetterAttribute(p) ==
    CASE p = "im_mean" -> "self.im_mean"
      [] p = "im_std" -> "self.im_std"
      [] p = "pose_mean" -> "pose_mean"
      [] p = "pose_std" -> "pose_std"
      [] p = "gripper_mean" -> "gripper_depth_mask_mean"
      [] p = "gripper_std" -> "gripper_depth_mask_std"
      [] OTHER -> ""

\* get_<p>()
get_norm(p) ==
    /\ last' = IF GetterAttribute(p) \in DOMAIN norm
               THEN [op |-> "get", param |-> p, err |-> "",
                     returned |-> "value", ret |-> norm[GetterAttribute(p)]]
               ELSE [op |-> "get", param |-> p, err |-> "AttributeError",
                     returned |-> "raised", ret |-> <<>>]
    /\ UNCHANGED <<objVars, batch_size, graphVars, bufVars, norm, sessVars,
                   builds, loads, lastBuild>>

\* ------------------------------------------------------ reinitialize_layers
\* reinitialize_layers(reinit_fc3, reinit_fc4, reinit_fc5): the branch of the
\* first flag that is set reads self.fc<k>_in_size, which nothing defines,
\* and raises; no branch touches the dict self._weights.weights (the new
\* variables would be attributes fc3W, fc3b, ... of the GQCNNWeights object).
reinitialize_layers(reinit_fc3, reinit_fc4, reinit_fc5) ==
    /\ last' = [op |-> "reinitialize_layers",
                flags |-> <<reinit_fc3, reinit_fc4, reinit_fc5>>,
                wBefore |-> weights,
                err |-> IF reinit_fc3 \/ reinit_fc4 \/ reinit_fc5
                        THEN "AttributeError" ELSE "",
                returned |-> IF reinit_fc3 \/ reinit_fc4 \/ reinit_fc5
                             THEN "raised" ELSE "None"]
    /\ UNCHANGED <<objVars, batch_size, graphVars, bufVars, norm, sessVars,
                   builds, loads, lastBuild>>

\* ------------------------------------------------------------ graph execution
\* the placeholders a node is computed from
RECURSIVE Deps(_, _)
Deps(nd, id) ==
    IF nd[id].kind = "placeholder" THEN {id}
    ELSE UNION {Deps(nd, nd[id].ins[i]) : i \in 1..Len(nd[id].ins)}

\* self._sess.run(fetch, feed_dict): feed maps placeholder nodes to arrays.
\* It raises when a fed array does not have the placeholder's batch dimension
\* or when the fetch needs a placeholder that has no default and is not fed.
RunFails(fetch, feed) ==
    \/ \E f \in DOMAIN feed : nodes[f].rows # 0 /\ nodes[f].rows # Len(feed[f])
    \/ \E d \in Deps(nodes, fetch) : ~nodes[d].dflt /\ d \notin DOMAIN feed

\* a[:dim] = rows cur+1 .. cur+dim of the (normalised) input
Fill(a, dim, cur) == [j \in 1..Len(a) |-> IF j <= dim THEN cur + j ELSE a[j]]

\* A scratch array as the next call finds it: a row that holds data is a
\* row of an earlier call (tag -1).
Stale(a) == [j \in 1..Len(a) |-> IF a[j] = 0 THEN 0 ELSE -1]

\* numpy refuses a[:dim, ...] = x when a has fewer than dim rows
FillFails(a, dim) == dim > Len(a)

\* ----------------------------------------------------- the checks of a call
\* A caller whose arrays are never found to differ in their numbers of rows.
CountsDifferNever(a, b) == FALSE

\* num_images != num_poses, num_images != num_gripper_parameters
CountsDiffer(a, b) == a # b

\* A predict that goes on without a session.
SessIsNoneNever == FALSE

\* A featurize that takes itself to have no session whatever the caller has
\* opened.
SessIsNoneAlways == TRUE

\* self._sess is None
SessIsNone == sess = 0

\* A featurize that accepts every layer name.
RecognizedAlways(layer) == TRUE

\* feature_layer in self._feature_tensors.keys()
Recognized(layer) == layer \in DOMAIN feature_tensors

\* ------------------------------------------------------------------ predict
\* The state of the chunk loop: L.i, the scratch arrays, the output array
\* (alloc says whether it has been allocated), the runs made so far.
RECURSIVE predict_loop(_, _, _, _, _)
predict_loop(L, n, hasG, gdm, shapeOk) ==
    IF L.err # "" \/ L.i >= n THEN L
    ELSE
    LET dim == Min(batch_size, n - L.i)
        cur_ind == L.i
        end_ind == cur_ind + dim
        raise(e) == [L EXCEPT !.err = e]
    IN
    IF L.im = <<>> THEN raise("AttributeError")
    ELSE IF ~shapeOk \/ FillFails(L.im, dim) THEN raise("ValueError: broadcast")
    ELSE
    LET im1 == Fill(L.im, dim, cur_ind)
        L1 == [L EXCEPT !.im = im1]
    IN
    IF FillFails(L.pose, dim) THEN [L1 EXCEPT !.err = "ValueError: broadcast"]
    ELSE
    LET L2 == [L1 EXCEPT !.pose = Fill(L.pose, dim, cur_ind)] IN
    IF hasG /\ ("gripper_mean" \notin DOMAIN norm \/ L.gripper = <<>>)
    THEN [L2 EXCEPT !.err = "AttributeError"]
    ELSE IF hasG /\ FillFails(L.gripper, dim)
    THEN [L2 EXCEPT !.err = "ValueError: broadcast"]
    ELSE
    LET L3 == IF hasG THEN [L2 EXCEPT !.gripper = Fill(L.gripper, dim, cur_ind)]
              ELSE L2
    IN
    IF gdm /\ cfg.num_channels < 3 THEN [L3 EXCEPT !.err = "IndexError"]
    ELSE IF gdm /\ "gripper_depth_mask_mean" \notin DOMAIN norm
    THEN [L3 EXCEPT !.err = "AttributeError"]
    ELSE IF output_tensor = 0 \/ (hasG /\ input_gripper_node = 0)
    THEN [L3 EXCEPT !.err = "AttributeError"]
    ELSE
    LET feed == IF hasG
                THEN Put(Put(Put(<<>>, input_im_node, L3.im),
                             input_pose_node, L3.pose),
                         input_gripper_node, L3.gripper)
                ELSE Put(Put(<<>>, input_im_node, L3.im), input_pose_node, L3.pose)
    IN
    IF RunFails(output_tensor, feed) THEN [L3 EXCEPT !.err = "TFRunError"]
    ELSE
    LET gqcnn_output == L3.im
        out0 == IF L3.alloc THEN L3.out ELSE Zeros(n)
        out1 == [j \in 1..n |-> IF cur_ind < j /\ j <= end_ind
                                THEN gqcnn_output[j - cur_ind] ELSE out0[j]]
    IN predict_loop([L3 EXCEPT !.out = out1, !.alloc = TRUE, !.i = end_ind,
                               !.runs = Append(@, [session |-> sess, cur |-> cur_ind,
                                                   dim |-> dim, feed |-> L3.im])],
                    n, hasG, gdm, shapeOk)

Loop0 ==
    [i |-> 0, im |-> input_im_arr, pose |-> input_pose_arr,
     gripper |-> input_gripper_arr, out |-> <<>>, alloc |-> FALSE,
     runs |-> <<>>, err |-> ""]

Call(op, n, p, g, gdm, shapeOk, layer) ==
    [op |-> op, n |-> n, p |-> p, g |-> g, gdm |-> gdm, shapeOk |-> shapeOk,
     layer |-> layer, err |-> "", returned |-> "", ret |-> <<>>, runs |-> <<>>,
     sessBefore |-> sess, openBefore |-> open_sessions,
     ftBefore |-> feature_tensors, batch |-> batch_size]

\* predict(image_arr, pose_arr, gripper_arr, gripper_depth_mask): n, p and g
\* are the numbers of rows of the three arrays (g = -1: gripper_arr is None);
\* shapeOk says whether a row of image_arr has the shape of a row of the
\* scratch array.
predict(n, p, g, gdm, shapeOk) ==
    LET c == Call("predict", n, p, g, gdm, shapeOk, <<>>)
        raised(e) == /\ last' = [c EXCEPT !.err = e, !.returned = "raised"]
                     /\ UNCHANGED bufVars
    IN
    /\ IF CountsDiffer(n, p)
       THEN raised("Must provide same number of images and poses")
       ELSE IF g # -1 /\ CountsDiffer(n, g)
       THEN raised("Must provide same number of images and gripper parameters")
       ELSE IF SessIsNone
       THEN raised("No TF session open")
       ELSE LET L == predict_loop(Loop0, n, g # -1, gdm, shapeOk) IN
            /\ input_im_arr' = Stale(L.im)
            /\ input_pose_arr' = Stale(L.pose)
            /\ input_gripper_arr' = Stale(L.gripper)
            /\ last' = [c EXCEPT !.err = L.err, !.runs = L.runs,
                                 !.returned = IF L.err # "" THEN "raised"
                                              ELSE IF L.alloc THEN "array"
                                              ELSE "None",
                                 !.ret = IF L.err = "" THEN L.out ELSE <<>>]
    /\ UNCHANGED <<objVars, batch_size, graphVars, norm, sessVars, builds,
                   loads, lastBuild>>

\* ---------------------------------------------------------------- featurize
RECURSIVE featurize_loop(_, _, _, _, _)
featurize_loop(L, n, layer, session, shapeOk) ==
    IF L.err # "" \/ L.i >= n THEN L
    ELSE
    LET dim == Min(batch_size, n - L.i)
        cur_ind == L.i
        end_ind == cur_ind + dim
        raise(e) == [L EXCEPT !.err = e]
    IN
    IF L.im = <<>> THEN raise("AttributeError")
    ELSE IF ~shapeOk \/ FillFails(L.im, dim) THEN raise("ValueError: broadcast")
    ELSE
    LET L1 == [L EXCEPT !.im = Fill(L.im, dim, cur_ind)] IN
    IF FillFails(L.pose, dim) THEN [L1 EXCEPT !.err = "ValueError: broadcast"]
    ELSE
    LET L2 == [L1 EXCEPT !.pose = Fill(L.pose, dim, cur_ind)]
        feed == Put(Put(<<>>, input_im_node, L2.im), input_pose_node, L2.pose)
    IN
    IF layer \notin DOMAIN feature_tensors THEN [L2 EXCEPT !.err = "KeyError"]
    ELSE IF RunFails(feature_tensors[layer], feed)
    THEN [L2 EXCEPT !.err = "TFRunError"]
    ELSE
    LET gqcnn_output == L2.im IN
    featurize_loop([L2 EXCEPT !.out = IF L2.alloc THEN L2.out \o gqcnn_output
                                      ELSE gqcnn_output,
                              !.alloc = TRUE, !.i = end_ind,
                              !.runs = Append(@, [session |-> session, cur |-> cur_ind,
                                                  dim |-> dim, feed |-> L2.im])],
                   n, layer, session, shapeOk)

\* featurize(image_arr, pose_arr, feature_layer)
featurize(n, p, layer, shapeOk) ==
    LET c == Call("featurize", n, p, -1, FALSE, shapeOk, layer)
        raised(e) == /\ last' = [c EXCEPT !.err = e, !.returned = "raised"]
                     /\ UNCHANGED <<bufVars, sessVars>>
        close_sess == SessIsNone
        session == IF close_sess THEN NewSession ELSE sess
    IN
    /\ close_sess => Cardinality(open_sessions) < MaxSess
    /\ IF ~Recognized(layer)
       THEN raised("Feature layer not recognized")
       ELSE IF CountsDiffer(n, p)
       THEN raised("Must provide same number of images and poses")
       ELSE LET L == featurize_loop(Loop0, n, layer, session, shapeOk)
                closed == L.err = "" /\ close_sess
            IN
            /\ input_im_arr' = Stale(L.im)
            /\ input_pose_arr' = Stale(L.pose)
            /\ UNCHANGED input_gripper_arr
            /\ sess' = IF closed THEN 0 ELSE session
            /\ open_sessions' = IF closed THEN open_sessions \ {session}
                                ELSE IF close_sess
                                THEN open_sessions \cup {session}
                                ELSE open_sessions
            /\ last' = [c EXCEPT
                 !.runs = L.runs,
                 !.err = IF L.err # "" THEN L.err
                         ELSE IF ~L.alloc THEN "TypeError" ELSE "",
                 !.returned = IF L.err # "" \/ ~L.alloc THEN "raised" ELSE "array",
                 !.ret = IF L.err = "" /\ L.alloc
                         THEN SubSeq(L.out, 1, Min(n, Len(L.out))) ELSE <<>>]
    /\ UNCHANGED <<objVars, batch_size, graphVars, norm, builds, loads, lastBuild>>

\* ------------------------------------------------- specification: building
TrainGripperArgs == {"None", "tensor", "dtype"}

InitBuild ==
    \E gm \in {"none", "width"}, on \in BOOLEAN :
        \E arch \in Architectures(GripperDimOf(gm)) :
            Construct(GqcnnConfig(1, gm), FullyConvConfig(on), arch)

\* A checkpoint is loaded into a new object, before its network is built, as
\* GQCNNTF.load does.
Load == builds = 0 /\ init_weights_file

NextBuild ==
    \/ Load
    \/ \E train \in BOOLEAN, tg \in TrainGripperArgs :
          /\ cfg.gripper_dim = 0 => tg = "None"
          /\ initialize_network(train, tg)

\* The same objects in the hands of a training caller, which passes its own
\* input nodes to initialize_network.
NextTrain ==
    \/ Load
    \/ initialize_network(TRUE, "dtype")

SpecBuild == InitBuild /\ [][NextBuild]_vars

SpecTrain == InitBuild /\ [][NextTrain]_vars

\* -------------------------------------------- specification: image streams
\* the layer types an image stream is written with, and one that it rejects
ImLayerTypes == {"conv", "fc", "residual", "spatial_transformer", "pc"}

\* every image stream of at most n layers of these types
ImStreams(n) ==
    UNION {{StreamOf("im_stream", ty) : ty \in [1..k -> ImLayerTypes]} : k \in 0..n}

\* the training image heights: a square image and one that is not, of a
\* height the pool stride does not divide
ImHeights == {4, 5}

\* A network without gripper input whose image stream is any of ImStreams,
\* trained on images of either height, as it is or fully convolutional on
\* images of the training size.
InitImage ==
    \E on \in BOOLEAN, h \in ImHeights, ls \in ImStreams(MaxImLayers) :
        Construct([GqcnnConfig(1, "none") EXCEPT !.im_height = h],
                  [FullyConvConfig(on) EXCEPT !.im_height = h],
                  [st \in {"im_stream", "pose_stream", "merge_stream"} |->
                      IF st = "im_stream" THEN ls ELSE DefaultStream(st)])

SpecImage == InitImage /\ [][NextTrain]_vars

\* ------------------------------------------------ specification: inference
\* the layer names a caller asks featurize for: a layer of the image stream,
\* a layer of the merge stream and the default of the parameter, 'conv2_2'
FeatureNames == {LayerName("im_stream", 1), LayerName("merge_stream", 1),
                 <<"conv2", "2">>}

\* The predict calls made with n images: n poses and no gripper_arr
\* (g = -1), images of the right or of a wrong shape, gripper_depth_mask
\* set, a gripper_arr of n or n + 1 rows, and n + 1 poses.
PredictArgs(n) ==
    {[p |-> n, g |-> -1, gdm |-> FALSE, shapeOk |-> TRUE],
     [p |-> n, g |-> -1, gdm |-> FALSE, shapeOk |-> FALSE],
     [p |-> n, g |-> -1, gdm |-> TRUE, shapeOk |-> TRUE],
     [p |-> n, g |-> n, gdm |-> FALSE, shapeOk |-> TRUE],
     [p |-> n, g |-> n + 1, gdm |-> FALSE, shapeOk |-> TRUE],
     [p |-> n + 1, g |-> -1, gdm |-> FALSE, shapeOk |-> TRUE],
     [p |-> n + 1, g |-> n, gdm |-> FALSE, shapeOk |-> TRUE]}

\* The featurize calls made with n images: n or n + 1 poses, each layer
\* name, and with n poses also images of a wrong shape.
FeaturizeArgs(n) ==
    {[p |-> q, layer |-> l, shapeOk |-> TRUE] :
        q \in {n, n + 1}, l \in FeatureNames}
    \cup {[p |-> n, layer |-> LayerName("im_stream", 1), shapeOk |-> FALSE]}

InitInfer ==
    \E b \in 1..MaxB :
        Construct(GqcnnConfig(b, "none"), FullyConvConfig(FALSE),
                  [st \in {"im_stream", "pose_stream", "merge_stream"} |->
                      DefaultStream(st)])

\* The network is built once, for inference, and then used.
NextInfer ==
    \/ builds = 0 /\ initialize_network(FALSE, "None")
    \/ open_session
    \/ close_session
    \/ \E b \in 1..MaxB + 1 : update_batch_size(b)
    \/ \E n \in 0..MaxN : \E x \in PredictArgs(n) :
          predict(n, x.p, x.g, x.gdm, x.shapeOk)
    \/ \E n \in 0..MaxN : \E x \in FeaturizeArgs(n) :
          featurize(n, x.p, x.layer, x.shapeOk)

SpecInfer == InitInfer /\ [][NextInfer]_vars

\* ---------------------------------- specification: construction and getters
\* the configurations a caller constructs a network with: every pose and
\* gripper mode and one value that is neither
Config(pm, gm) ==
    [batch_size |-> 1, im_height |-> 4, im_width |-> 4, im_channels |-> 1,
     input_pose_mode |-> pm, input_gripper_mode |-> gm]

\* the usual architecture for a gripper mode
ArchitectureOf(gm) ==
    [st \in (IF gm \in {"width", "all"}
             THEN {"im_stream", "pose_stream", "gripper_stream", "merge_stream"}
             ELSE {"im_stream", "pose_stream", "merge_stream"}) |->
        DefaultStream(st)]

InitObject ==
    \E pm \in PoseModes \cup {"unknown"}, gm \in GripperModes \cup {"unknown"} :
        New(Config(pm, gm), FullyConvConfig(FALSE), ArchitectureOf(gm))

\* the constructor has returned an object
Constructed == "gripper_dim" \in DOMAIN cfg

\* the values a caller sets parameter p to: a number for the image mean and
\* std, an array of the parameter's length for the others
NormValues(p) ==
    IF p \in {"im_mean", "im_std"} THEN {2, 3}
    ELSE {[i \in 1..(CASE p \in {"pose_mean", "pose_std"} -> cfg.pose_dim
                       [] p \in {"gripper_mean", "gripper_std"} -> cfg.gripper_dim
                       [] OTHER -> 2) |-> x] : x \in {2, 3}}

\* the parameters that are not as _parse_config left them
NormChanged(nm) ==
    {p \in NormParams :
        \/ (p \in DOMAIN nm) # (p \in DOMAIN parse_config_norm(cfg))
        \/ p \in DOMAIN nm /\ p \in DOMAIN parse_config_norm(cfg)
              /\ nm[p] # parse_config_norm(cfg)[p]}

\* The object is constructed, its parameters are set and read, and the
\* network is built and used for prediction.
NextObject ==
    \/ \E p \in NormParams :
          /\ Constructed
          /\ \E v \in NormValues(p) :
                /\ Cardinality(NormChanged(Put(norm, p, v))) <= MaxSets
                /\ update_norm(p, v)
    \/ \E p \in NormParams : Constructed /\ get_norm(p)
    \/ Constructed /\ builds = 0 /\ initialize_network(FALSE, "None")
    \/ Constructed /\ sess = 0 /\ open_session
    \/ \E gdm \in BOOLEAN : Constructed /\ predict(1, 1, -1, gdm, TRUE)

SpecObject == InitObject /\ [][NextObject]_vars

\* ------------------------------------------------ specification: fine-tuning
InitTune ==
    \E on \in BOOLEAN :
        Construct(GqcnnConfig(1, "none"), FullyConvConfig(on),
                  ArchitectureOf("none"))

\* A caller that fine-tunes: checkpoints are loaded, layers re-initialised
\* and the network built, in any order, and further networks of the same
\* configuration and architecture, fully convolutional or not, are
\* constructed in the same process.
NextTune ==
    \/ \E on \in BOOLEAN :
          GQCNNTF(GqcnnConfig(batch_size, cfg.input_gripper_mode),
                  [on |-> on, im_height |-> cfg.train_im_height,
                   im_width |-> cfg.train_im_width],
                  architecture)
    \/ init_weights_file
    \/ initialize_network(TRUE, "None")
    \/ \E reinit_fc3 \in BOOLEAN, reinit_fc4 \in BOOLEAN, reinit_fc5 \in BOOLEAN :
          reinitialize_layers(reinit_fc3, reinit_fc4, reinit_fc5)

SpecTune == InitTune /\ [][NextTune]_vars

\* ------------------------------------------------------------- properties
\* The call just made was made on a network that initialize_network has
\* built, with arrays that fit it: n images of the right shape, n poses,
\* no gripper_arr, no gripper depth mask.
PlainCall(op) ==
    /\ last.op = op
    /\ output_tensor # 0
    /\ last.n >= 1 /\ last.p = last.n
    /\ last.g = -1 /\ ~last.gdm /\ last.shapeOk

\* the call just made has left the sessions as it found them
SessionsUntouched ==
    sess = last.sessBefore /\ open_sessions = last.openBefore

\* the nodes the last initialize_network call added to the graph, and the
\* layers they belong to
NewNodes == {nodes[k] : k \in (lastBuild.nodesBefore + 1)..Len(nodes)}
BuiltLayers == {n.layer : n \in NewNodes}

\* the last initialize_network call has entered the builder of stream st
Entered(st) == \E i \in 1..Len(lastBuild.order) : lastBuild.order[i] = st

\* ... and that builder has returned
Accepted(st) ==
    \E i \in 1..Len(lastBuild.order) :
        /\ lastBuild.order[i] = st
        /\ (i < Len(lastBuild.order) \/ lastBuild.err = "")

\* the errors that report an invalid architecture
PoseStreamErrors ==
    {"Cannot have spatial transformer in pose stream",
     "Cannot have conv layer in pose stream",
     "Cannot have fc layer in pose stream",
     "Cannot have merge layer in pose stream",
     "Cannot have residual in pose stream",
     "Unsupported layer type"}

GripperStreamErrors ==
    {"Cannot have spatial transformer in gripper stream",
     "Cannot have conv layer in gripper stream",
     "Cannot have fc layer in gripper stream",
     "Cannot have pc layer in gripper stream",
     "Cannot have merge layer in gripper stream",
     "Cannot have residual in gripper stream",
     "Unsupported layer type"}

ArchitectureErrors ==
    PoseStreamErrors \cup GripperStreamErrors \cup
    {"Cannot have conv layer after fc layer",
     "Cannot have pose-connected layer in image stream",
     "Cannot have merge layer in image stream",
     "First layer in merge stream must be a fc_merge layer",
     "Cannot have spatial transformer in merge stream",
     "Cannot have conv layer in merge stream",
     "Cannot have pose-connected layer in merge stream",
     "Cannot have residual in merge stream"}

\* C1: predict called with an open session on N >= 1 images and N poses
\* returns an array of exactly N rows, whatever the batch size is.
C1_PredictReturnsNRows ==
    (PlainCall("predict") /\ last.sessBefore # 0)
        => (last.returned = "array" /\ Len(last.ret) = last.n)

\* C2: featurize called with no session open leaves no session open, whether
\* it returns or raises: the session it opened is closed again.
C2_FeaturizeLeavesNoSession ==
    (last.op = "featurize" /\ last.sessBefore = 0)
        => (sess = 0 /\ open_sessions = last.openBefore)

\* C3: predict called with no session open raises (the RuntimeError
\* 'No TF session open' when its arrays agree in their numbers of rows),
\* runs no chunk and opens no session: there is still no session afterwards.
C3_PredictWithoutSessionRaises ==
    (last.op = "predict" /\ last.sessBefore = 0)
        => /\ last.returned = "raised"
           /\ (last.p = last.n /\ last.g \in {-1, last.n})
                 => last.err = "No TF session open"
           /\ last.runs = <<>>
           /\ sess = 0
           /\ open_sessions = last.openBefore

C3_Witness ==
    /\ PlainCall("predict")
    /\ last.sessBefore = 0
    /\ last.err = "No TF session open"

\* the call just made has raised error e without running a chunk and
\* without opening or closing a session
RaisedEarly(e) ==
    /\ last.returned = "raised" /\ last.err = e
    /\ last.runs = <<>>
    /\ SessionsUntouched

\* what predict does when its arrays differ in their numbers of rows
PredictCountMismatch ==
    /\ (last.op = "predict" /\ last.p # last.n)
          => RaisedEarly("Must provide same number of images and poses")
    /\ (last.op = "predict" /\ last.p = last.n /\ last.g \notin {-1, last.n})
          => RaisedEarly("Must provide same number of images and gripper parameters")

\* C4, as stated: predict raises the shape-mismatch error when the number of
\* images differs from the number of poses or of gripper rows, and featurize
\* raises it whenever the numbers of images and poses differ; no chunk is
\* run and no session is opened or closed.
C4_AsStated ==
    /\ PredictCountMismatch
    /\ (last.op = "featurize" /\ last.p # last.n)
          => RaisedEarly("Must provide same number of images and poses")

\* C4, amended: as stated for predict; featurize raises the shape-mismatch
\* error when the numbers of images and poses differ and the layer name is
\* registered (an unregistered name is reported first).
C4_CountMismatchRaises ==
    /\ PredictCountMismatch
    /\ (last.op = "featurize" /\ last.p # last.n
            /\ last.layer \in DOMAIN last.ftBefore)
          => RaisedEarly("Must provide same number of images and poses")

C4_Witness ==
    /\ last.op = "featurize"
    /\ last.p # last.n /\ last.n >= 1
    /\ last.layer \in DOMAIN last.ftBefore
    /\ last.sessBefore = 0
    /\ last.err = "Must provide same number of images and poses"

\* C5: featurize raises when the layer name is not a key of the feature
\* registry, before it opens a session or runs a chunk; the registry and the
\* sessions are as they were before the call.
C5_UnknownLayerRaises ==
    (last.op = "featurize" /\ last.layer \notin DOMAIN last.ftBefore)
        => /\ RaisedEarly("Feature layer not recognized")
           /\ feature_tensors = last.ftBefore

C5_Witness ==
    /\ PlainCall("featurize")
    /\ last.layer \notin DOMAIN last.ftBefore
    /\ last.sessBefore = 0
    /\ last.err = "Feature layer not recognized"

\* '{}_fully_conv_weights' and '{}_im_fully_conv_weights'
IsFullyConvKey(k) ==
    Len(k) >= 3 /\ SubSeq(k, Len(k) - 2, Len(k)) = <<"fully", "conv", "weights">>

\* the last initialize_network call found in the store every key that the
\* layers of the architecture look up: the keys of all its layers, which
\* training has built
KeysExisted ==
    /\ lastBuild.called
    /\ lastBuild.wBefore # <<>>
    /\ TrainedNetwork.err = ""
    /\ TrainedKeys \subseteq DOMAIN lastBuild.wBefore

C7_FailedBuildKeepsStore ==
    (lastBuild.called /\ lastBuild.err \in ArchitectureErrors)
        => weights = lastBuild.wBefore

\* the layer list of a merge stream as the specification has it
MergeStreamWellFormed(layers) ==
    /\ layers # <<>>
    /\ layers[1].type = "fc_merge"
    /\ \A i \in 2..Len(layers) : layers[i].type = "fc"

\* C8: a merge stream (merge_stream or gripper_pose_merge_stream) whose
\* builder returns has fc_merge as its first layer and fc as every later one;
\* every other layer list makes the builder raise.
C8_MergeStreamShape ==
    \A st \in {"merge_stream", "gripper_pose_merge_stream"} :
        (lastBuild.called /\ Accepted(st))
            => MergeStreamWellFormed(architecture[st])

\* the first layer of a stream that is not of type ty (0: there is none)
FirstOther(layers, ty) ==
    IF \A i \in 1..Len(layers) : layers[i].type = ty THEN 0
    ELSE CHOOSE i \in 1..Len(layers) :
           /\ layers[i].type # ty
           /\ \A j \in 1..(i - 1) : layers[j].type = ty

\* what C9 says of stream st, whose layers are to be of type ty
OnlyLayersOf(st, ty, errors) ==
    LET layers == architecture[st]
        b == FirstOther(layers, ty)
    IN /\ Accepted(st) => b = 0
       /\ b # 0 =>
            /\ lastBuild.err \in errors
            /\ lastBuild.order[Len(lastBuild.order)] = st
            /\ \A j \in 1..(b - 1) : layers[j].name \in BuiltLayers
            /\ \A j \in b..Len(layers) : layers[j].name \notin BuiltLayers

\* C9: the pose stream is built without error only if all its layers are pc
\* layers, the gripper stream only if all are gc layers; a layer of another
\* type raises an invalid-architecture error when the loop reaches it, the
\* layers before it being built and neither it nor a later one.
C9_PoseAndGripperLayers ==
    /\ (lastBuild.called /\ Entered("pose_stream"))
          => OnlyLayersOf("pose_stream", "pc", PoseStreamErrors)
    /\ (lastBuild.called /\ Entered("gripper_stream"))
          => OnlyLayersOf("gripper_stream", "gc", GripperStreamErrors)

C9_Witness ==
    /\ lastBuild.called
    /\ Entered("gripper_stream")
    /\ Len(architecture["gripper_stream"]) = 2
    /\ FirstOther(architecture["gripper_stream"], "gc") = 2
    /\ architecture["gripper_stream"][1].name \in BuiltLayers
    /\ lastBuild.err \in GripperStreamErrors

\* the streams in the order C10 gives
StreamOrder ==
    <<"im_stream", "pose_stream">>
    \o (IF cfg.gripper_dim > 0 THEN <<"gripper_stream">> ELSE <<>>)
    \o (IF cfg.gripper_dim > 0 /\ "gripper_pose_merge_stream" \in DOMAIN architecture
        THEN <<"gripper_pose_merge_stream">> ELSE <<>>)
    \o <<"merge_stream">>

\* the inputs C10 gives the fc_merge layer of the final merge stream
MergeInputs ==
    LET o == lastBuild.outs IN
    IF cfg.gripper_dim = 0 THEN <<o.im_stream, o.pose_stream>>
    ELSE IF "gripper_pose_merge_stream" \in DOMAIN architecture
    THEN <<o.im_stream, o.gripper_pose_merge_stream>>
    ELSE <<o.im_stream, o.pose_stream, o.gripper_stream>>

\* C10: a network that initialize_network has built has its streams built in
\* the order image, pose, gripper (if configured); pose and gripper are merged
\* first when the architecture has a gripper_pose_merge_stream, and the final
\* merge takes image and that result, or image, pose and gripper, or image
\* and pose without gripper; the output is the last layer of merge_stream.
C10_OrderAndWiring ==
    (lastBuild.called /\ lastBuild.err = "") =>
        LET ms == architecture["merge_stream"] IN
        /\ lastBuild.order = StreamOrder
        /\ \A n \in NewNodes : n.layer = ms[1].name => n.ins = MergeInputs
        /\ ("gripper_pose_merge_stream" \in DOMAIN architecture
              /\ cfg.gripper_dim > 0) =>
              \A n \in NewNodes :
                  n.layer = architecture["gripper_pose_merge_stream"][1].name
                      => n.ins = <<lastBuild.outs.pose_stream,
                                   lastBuild.outs.gripper_stream>>
        /\ lastBuild.ret = Len(nodes)
        /\ nodes[lastBuild.ret].layer = ms[Len(ms)].name

\* ------------------------------------------- configuration and parameters
\* the dimensions of the poses and gripper vectors of each mode, as tabulated
PoseDimTable ==
    [tf_image |-> 1, tf_image_perspective |-> 3, raw_image |-> 4,
     raw_image_perspective |-> 6, tf_image_suction |-> 2]
GripperDimTable == [width |-> 1, none |-> 0, all |-> 4, depth_mask |-> 0]

\* C11: the constructor derives pose_dim and gripper_dim from the modes as
\* tabulated, num_channels is im_channels + 2 in gripper mode depth_mask and
\* im_channels in every other, and a pose or gripper mode that is not in the
\* tables makes the constructor raise.
C11_DimensionsFromModes ==
    last.op = "__init__" =>
        IF /\ last.config.input_pose_mode \in DOMAIN PoseDimTable
           /\ last.config.input_gripper_mode \in DOMAIN GripperDimTable
        THEN /\ last.returned = "object"
             /\ cfg.pose_dim = PoseDimTable[last.config.input_pose_mode]
             /\ cfg.gripper_dim = GripperDimTable[last.config.input_gripper_mode]
             /\ cfg.num_channels =
                   IF last.config.input_gripper_mode = "depth_mask"
                   THEN last.config.im_channels + 2
                   ELSE last.config.im_channels
        ELSE /\ last.returned = "raised"
             /\ last.err # ""
             /\ ~Constructed

\* a network constructed for six-dimensional poses and gripper depth masks
C11_Witness ==
    /\ last.op = "__init__"
    /\ last.returned = "object"
    /\ last.config.input_pose_mode = "raw_image_perspective"
    /\ last.config.input_gripper_mode = "depth_mask"
    /\ cfg.pose_dim = 6
    /\ cfg.num_channels = last.config.im_channels + 2

\* the identity values of the parameters of a network with configuration c
IdentityNorm(c) ==
    [p \in {"im_mean", "im_std", "pose_mean", "pose_std"}
           \cup (IF c.gripper_dim > 0 THEN {"gripper_mean", "gripper_std"}
                 ELSE {})
           \cup (IF c.input_gripper_mode = "depth_mask"
                 THEN {"gripper_depth_mask_mean", "gripper_depth_mask_std"}
                 ELSE {}) |->
        CASE p = "im_mean" -> 0
          [] p = "im_std" -> 1
          [] p = "pose_mean" -> Zeros(c.pose_dim)
          [] p = "pose_std" -> Ones(c.pose_dim)
          [] p = "gripper_mean" -> Zeros(c.gripper_dim)
          [] p = "gripper_std" -> Ones(c.gripper_dim)
          [] p = "gripper_depth_mask_mean" -> Zeros(2)
          [] p = "gripper_depth_mask_std" -> Ones(2)]

\* C12: a network just constructed has every normalisation parameter at its
\* identity value (those of the gripper depth mask included, in gripper mode
\* depth_mask), and predict with gripper_depth_mask set runs on a network in
\* that mode whose parameters nobody has set.
C12_IdentityAfterConstruction ==
    /\ (last.op = "__init__" /\ last.returned = "object")
          => norm = IdentityNorm(cfg)
    /\ (/\ last.op = "predict"
        /\ output_tensor # 0
        /\ last.sessBefore # 0
        /\ last.gdm
        /\ cfg.input_gripper_mode = "depth_mask"
        /\ NormChanged(norm) = {})
          => last.err = ""

\* C13: the setter of a parameter sets that parameter and no other, and the
\* getter of a parameter that is set returns its value.
C13_SetThenGet ==
    /\ last.op = "update" =>
          norm = Put(last.normBefore, last.param, last.value)
    /\ (last.op = "get" /\ last.param \in DOMAIN norm) =>
          /\ last.returned = "value"
          /\ last.ret = norm[last.param]

\* C14: reinitialize_layers raises nothing; with a flag set it replaces
\* entries of the store by new tensors, with no flag set it leaves the store
\* as it was.
C14_ReinitializeReplaces ==
    last.op = "reinitialize_layers" =>
        /\ last.err = ""
        /\ (\A i \in 1..3 : ~last.flags[i]) => weights = last.wBefore
        /\ ((\E i \in 1..3 : last.flags[i]) /\ last.wBefore # <<>>) =>
              /\ DOMAIN weights = DOMAIN last.wBefore
              /\ \E k \in DOMAIN weights :
                    /\ weights[k] # last.wBefore[k]
                    /\ \A j \in DOMAIN last.wBefore : last.wBefore[j] # weights[k]

\* ------------------------------------------------------------ chunked calls
\* C15: featurize on N >= 1 images and N poses with a registered layer name
\* returns N rows, row j being the output for input j: the outputs of the
\* chunks in order, without the padded rows.
C15_FeaturizeReturnsNRows ==
    (PlainCall("featurize") /\ last.layer \in DOMAIN last.ftBefore) =>
        /\ last.returned = "array"
        /\ last.ret = [j \in 1..last.n |-> j]

\* C16: in every graph execution of predict the rows of the scratch image
\* array from index dim on are zero.
C16_PaddingRowsAreZero ==
    last.op = "predict" =>
        \A k \in 1..Len(last.runs) :
            \A j \in 1..Len(last.runs[k].feed) :
                j > last.runs[k].dim => last.runs[k].feed[j] = 0

\* C17: predict on N inputs with batch size B runs the graph ceil(N / B)
\* times, the k-th run on the input rows from (k - 1) * B up to
\* min(k * B, N), and row j of the result is the output for input j.
C17_ChunksInOrder ==
    (PlainCall("predict") /\ last.sessBefore # 0) =>
        /\ last.err = ""
        /\ Len(last.runs) = (last.n + last.batch - 1) \div last.batch
        /\ \A k \in 1..Len(last.runs) :
              /\ last.runs[k].cur = (k - 1) * last.batch
              /\ last.runs[k].dim = Min(last.batch, last.n - (k - 1) * last.batch)
        /\ last.ret = [j \in 1..last.n |-> j]

\* C19: after init_weights_file the store has one entry per checkpoint
\* variable, under the last component of its name, each a new tensor, and
\* no other entry.
C19_LoadReplacesStore ==
    last.op = "init_weights_file" =>
        /\ DOMAIN weights = {ShortName(last.ckpt_vars[i]) :
                                i \in 1..Len(last.ckpt_vars)}
        /\ \A k \in DOMAIN weights : \A j \in DOMAIN last.wBefore :
              last.wBefore[j] # weights[k]

\* ------------------------------------------------- features and activations
\* C18: after a successful build every layer of every stream of the
\* architecture is a key of the feature registry.
C18_EveryLayerRegistered ==
    (lastBuild.called /\ lastBuild.err = "") =>
        \A st \in DOMAIN architecture :
            \A i \in 1..Len(architecture[st]) :
                architecture[st][i].name \in DOMAIN feature_tensors

\* C20: in a network built on a merge stream of an fc_merge layer and fc
\* layers, the last fc layer of the merge stream has no leaky-ReLU and every
\* other fc layer of the merge stream has one, fully convolutional or not.
C20_TerminalLayerIsLinear ==
    (/\ lastBuild.called
     /\ lastBuild.err = ""
     /\ MergeStreamWellFormed(architecture.merge_stream)) =>
        \A i \in 1..Len(architecture.merge_stream) :
            architecture.merge_stream[i].type = "fc" =>
                \A nd \in NewNodes :
                    nd.layer = architecture.merge_stream[i].name =>
                        nd.act = (i # Len(architecture.merge_stream))

\* ------------------------------------------------------------ image stream
\* the nodes of the last build that are residual blocks, by position
ResidualBlocks ==
    {k \in (lastBuild.nodesBefore + 1)..Len(nodes) : nodes[k].kind = "residual"}

\* C21: of the residual blocks an image stream is built with, the first of
\* the stream is built with first = true and every later one with
\* first = false, whatever layers lie between them.
C21_OnlyFirstResidualIsFirst ==
    lastBuild.called =>
        \A k \in ResidualBlocks :
            nodes[k].first = (\A j \in ResidualBlocks : j >= k)

\* ... which holds of residual blocks that follow one another directly
C21_AdjacentResiduals ==
    lastBuild.called =>
        \A k \in ResidualBlocks :
            (k - 1 \in ResidualBlocks) => ~nodes[k].first

\* the positions of the image stream at which a conv layer comes after an
\* fc layer
ConvAfterFc ==
    {i \in 2..Len(architecture.im_stream) :
        /\ architecture.im_stream[i].type = "conv"
        /\ architecture.im_stream[i - 1].type = "fc"}

\* the layers the image stream loop of the last build got through
ImStreamBuilt == {lastBuild.trace[i].name : i \in 1..Len(lastBuild.trace)}

\* C22: a build of an image stream with a conv layer after an fc layer
\* raises, fully convolutional or not: no such conv layer is built, and when
\* the loop gets to one the error is 'Cannot have conv layer after fc layer'.
C22_ConvAfterFcRejected ==
    (lastBuild.called /\ ConvAfterFc # {}) =>
        /\ lastBuild.err # ""
        /\ \A i \in ConvAfterFc :
              /\ architecture.im_stream[i].name \notin ImStreamBuilt
              /\ Len(lastBuild.trace) = i - 1 =>
                     lastBuild.err = "Cannot have conv layer after fc layer"

\* ... which holds of a network that is not fully convolutional
C22_NormalMode ==
    (lastBuild.called /\ ConvAfterFc # {} /\ ~cfg.fully_conv) =>
        /\ lastBuild.err # ""
        /\ \A i \in ConvAfterFc :
              /\ architecture.im_stream[i].name \notin ImStreamBuilt
              /\ Len(lastBuild.trace) = i - 1 =>
                     lastBuild.err = "Cannot have conv layer after fc layer"

\* ceil(a / b) for positive b
CeilDiv(a, b) == (a + b - 1) \div b

\* the layer of the architecture that a trace entry is about
ImLayerOf(e) ==
    CHOOSE L \in {architecture.im_stream[i] : i \in 1..Len(architecture.im_stream)} :
        L.name = e.name

\* The height and width of the feature map that the first i layers of the
\* last build's image stream make of an h x w image: SAME pooling gives
\* ceil(input / stride), a spatial transformer its out_size, a residual
\* block its input's size, an fc layer 1 x 1 and a converted fc layer, a
\* VALID convolution with a filter_dim x filter_dim filter, input -
\* filter_dim + 1.
RECURSIVE TrueDims(_, _, _)
TrueDims(i, h, w) ==
    IF i = 0 THEN <<h, w>>
    ELSE CASE lastBuild.trace[i].type = "conv" ->
                <<CeilDiv(TrueDims(i - 1, h, w)[1],
                          ImLayerOf(lastBuild.trace[i]).pool_stride),
                  CeilDiv(TrueDims(i - 1, h, w)[2],
                          ImLayerOf(lastBuild.trace[i]).pool_stride)>>
           [] lastBuild.trace[i].type = "spatial_transformer" ->
                <<ImLayerOf(lastBuild.trace[i]).out_size,
                  ImLayerOf(lastBuild.trace[i]).out_size>>
           [] lastBuild.trace[i].type = "fc" /\ cfg.fully_conv ->
                <<TrueDims(i - 1, h, w)[1] - lastBuild.trace[i].filter_dim + 1,
                  TrueDims(i - 1, h, w)[2] - lastBuild.trace[i].filter_dim + 1>>
           [] lastBuild.trace[i].type = "fc" /\ ~cfg.fully_conv -> <<1, 1>>
           [] OTHER -> TrueDims(i - 1, h, w)

\* C23: every conv layer returns, as the next layer's input shape,
\* ceil(input / pool_stride) for height and for width, so that the fan-in
\* computed for an fc layer that follows a conv layer is the flattened size
\* height * width * channels of the feature map it reads.
C23_ConvReturnsCeil ==
    lastBuild.called =>
        \A i \in 1..Len(lastBuild.trace) :
            /\ lastBuild.trace[i].type = "conv" =>
                  /\ lastBuild.trace[i].out_h =
                         CeilDiv(lastBuild.trace[i].in_h,
                                 ImLayerOf(lastBuild.trace[i]).pool_stride)
                  /\ lastBuild.trace[i].out_w =
                         CeilDiv(lastBuild.trace[i].in_w,
                                 ImLayerOf(lastBuild.trace[i]).pool_stride)
            /\ (/\ lastBuild.trace[i].type = "fc"
                /\ i > 1
                /\ lastBuild.trace[i - 1].type = "conv") =>
                  lastBuild.trace[i].in_h * lastBuild.trace[i].in_w
                          * lastBuild.trace[i].in_ch
                      = TrueDims(i - 1, cfg.im_height, cfg.im_width)[1]
                          * TrueDims(i - 1, cfg.im_height, cfg.im_width)[2]
                          * lastBuild.trace[i].in_ch

\* ... which holds of the streams in which the stride divides the input of
\* every conv layer
C23_DivisibleInput ==
    (/\ lastBuild.called
     /\ \A j \in 1..Len(lastBuild.trace) :
           lastBuild.trace[j].type = "conv" =>
              /\ lastBuild.trace[j].in_h % ImLayerOf(lastBuild.trace[j]).pool_stride = 0
              /\ lastBuild.trace[j].in_w % ImLayerOf(lastBuild.trace[j]).pool_stride = 0) =>
        \A i \in 1..Len(lastBuild.trace) :
            /\ lastBuild.trace[i].type = "conv" =>
                  /\ lastBuild.trace[i].out_h =
                         CeilDiv(lastBuild.trace[i].in_h,
                                 ImLayerOf(lastBuild.trace[i]).pool_stride)
                  /\ lastBuild.trace[i].out_w =
                         CeilDiv(lastBuild.trace[i].in_w,
                                 ImLayerOf(lastBuild.trace[i]).pool_stride)
            /\ (/\ lastBuild.trace[i].type = "fc"
                /\ i > 1
                /\ lastBuild.trace[i - 1].type = "conv") =>
                  lastBuild.trace[i].in_h * lastBuild.trace[i].in_w
                          * lastBuild.trace[i].in_ch
                      = TrueDims(i - 1, cfg.im_height, cfg.im_width)[1]
                          * TrueDims(i - 1, cfg.im_height, cfg.im_width)[2]
                          * lastBuild.trace[i].in_ch

\* C24: in a fully convolutional build every fc layer of the image stream is
\* converted with a filter_dim that is both the height and the width of the
\* feature map the layers before it make of an image of the training size.
C24_FilterDimIsFeatureMapSize ==
    (lastBuild.called /\ cfg.fully_conv) =>
        \A i \in 1..Len(lastBuild.trace) :
            lastBuild.trace[i].type = "fc" =>
                /\ lastBuild.trace[i].filter_dim =
                       TrueDims(i - 1, cfg.train_im_height, cfg.train_im_width)[1]
                /\ lastBuild.trace[i].filter_dim =
                       TrueDims(i - 1, cfg.train_im_height, cfg.train_im_width)[2]

\* ... which holds of a square training image that the strides divide, in a
\* stream of conv and residual layers and one fc layer at its end
C24_SquareDivisibleSingleFc ==
    (/\ lastBuild.called /\ cfg.fully_conv
     /\ cfg.train_im_height = cfg.train_im_width
     /\ \A j \in 1..Len(lastBuild.trace) :
           /\ lastBuild.trace[j].type \in {"conv", "residual", "fc"}
           /\ lastBuild.trace[j].type = "fc" => j = Len(lastBuild.trace)
           /\ lastBuild.trace[j].type = "conv" =>
                 lastBuild.trace[j].in_w % ImLayerOf(lastBuild.trace[j]).pool_stride = 0) =>
        \A i \in 1..Len(lastBuild.trace) :
            lastBuild.trace[i].type = "fc" =>
                /\ lastBuild.trace[i].filter_dim =
                       TrueDims(i - 1, cfg.train_im_height, cfg.train_im_width)[1]
                /\ lastBuild.trace[i].filter_dim =
                       TrueDims(i - 1, cfg.train_im_height, cfg.train_im_width)[2]

\* ----------------------------------------------------------------- sessions
\* C25: whatever calls have been made, at most one session that the network
\* created is open, and it is the one self._sess refers to.
C25_OneReferencedSession ==
    /\ Cardinality(open_sessions) <= 1
    /\ open_sessions = (IF sess = 0 THEN {} ELSE {sess})

\* ... of which this much holds: the session the network refers to is open
C25_ReferencedSessionOpen == sess # 0 => sess \in open_sessions

\* ----------------------------------------------------------- scratch arrays
\* C27: once initialize_network has built the network, the scratch arrays
\* have exactly batch_size rows, also after update_batch_size.
C27_BuffersHaveBatchSizeRows ==
    (lastBuild.called /\ lastBuild.err = "") =>
        /\ Len(input_im_arr) = batch_size
        /\ Len(input_pose_arr) = batch_size

\* ... of which this much holds: the arrays have the rows of the batch size
\* the network was built with, the batch dimension of its placeholders
C27_BuffersHaveRowsOfBuild ==
    (lastBuild.called /\ lastBuild.err = "") =>
        /\ Len(input_im_arr) = nodes[input_im_node].rows
        /\ Len(input_pose_arr) = nodes[input_pose_node].rows

\* ------------------------------------------------- sessions of the callers
\* C28: featurize called with a session open runs every chunk in that
\* session and leaves the sessions as they were; featurize never closes a
\* session that was open before the call; predict leaves the sessions as
\* they were.
C28_CallsKeepCallersSession ==
    /\ last.op = "featurize" =>
          /\ last.openBefore \subseteq open_sessions
          /\ last.sessBefore # 0 =>
                /\ SessionsUntouched
                /\ \A k \in 1..Len(last.runs) :
                      last.runs[k].session = last.sessBefore
    /\ last.op = "predict" => SessionsUntouched

\* featurize has run two chunks or more in the caller's session and returned
C28_Witness ==
    /\ last.op = "featurize"
    /\ last.sessBefore # 0
    /\ last.returned = "array"
    /\ Len(last.runs) >= 2

\* ------------------------------------------------------ stores of instances
\* C26: the store of a network is its own: when a network has just been
\* constructed its store is empty, whatever other networks of the process
\* have built or loaded.
C26_NewNetworkHasEmptyStore ==
    (last.op = "__init__" /\ last.returned = "object") => weights = <<>>

\* ... which holds of the first network a process constructs
C26_FirstNetwork ==
    (last.op = "__init__" /\ last.returned = "object" /\ builds = 0 /\ loads = 0)
        => weights = <<>>

====
